---- MODULE Spec2Model ----
(***************************************************************************)
(* Model of the Snowflake -> DuckDB extract/load pipeline                  *)
(* (src/data_pipeline.py, class DataPipeline) and of its caller            *)
(* (src/streamlit_app.py, run_data_pipeline).                              *)
(*                                                                         *)
(* Strings are TLA+ strings, handled as sequences of characters            *)
(* (Len, SubSeq, \o).  The warehouse and the DuckDB file are the           *)
(* environment: every library call either succeeds or raises.              *)
(***************************************************************************)
EXTENDS Integers, Sequences, FiniteSets, TLC

\* ---------------------------------------------------------------- bounds
MaxCalls == 2
MaxInserts == 1

\* ------------------------------------------------------ program constants
DefaultLimit == 1000

\* ------------------------------------------------------- string helpers
UpperChars == "ABCDEFGHIJKLMNOPQRSTUVWXYZ"
LowerChars == "abcdefghijklmnopqrstuvwxyz"
Digits == "0123456789"

\* Operators bind their arguments to values ({f(t) : t \in {s}}) before they
\* use them more than once.
CharAt(s, i) == SubSeq(s, i, i)

IndexIn(c, alphabet) ==
  IF \E i \in 1..Len(alphabet) : CharAt(alphabet, i) = c
  THEN CHOOSE i \in 1..Len(alphabet) : CharAt(alphabet, i) = c
  ELSE 0

\* c.upper() and c.lower() of one character
UpperOfChar == [i \in 1..Len(LowerChars) |-> CharAt(UpperChars, i)]
LowerOfChar == [i \in 1..Len(UpperChars) |-> CharAt(LowerChars, i)]
UpperChar(c) ==
  CHOOSE r \in {IF i = 0 THEN c ELSE UpperOfChar[i] : i \in {IndexIn(c, LowerChars)}} : TRUE
LowerChar(c) ==
  CHOOSE r \in {IF i = 0 THEN c ELSE LowerOfChar[i] : i \in {IndexIn(c, UpperChars)}} : TRUE

RECURSIVE UpperFrom(_, _)
UpperFrom(s, i) ==
  IF i > Len(s) THEN ""
  ELSE CHOOSE r \in {UpperChar(c) \o UpperFrom(s, j) : c \in {CharAt(s, i)}, j \in {i + 1}} : TRUE

RECURSIVE LowerFrom(_, _)
LowerFrom(s, i) ==
  IF i > Len(s) THEN ""
  ELSE CHOOSE r \in {LowerChar(c) \o LowerFrom(s, j) : c \in {CharAt(s, i)}, j \in {i + 1}} : TRUE

\* str.upper() and str.lower()
Upper(s) == CHOOSE r \in {UpperFrom(t, 1) : t \in {s}} : TRUE
Lower(s) == CHOOSE r \in {LowerFrom(t, 1) : t \in {s}} : TRUE

\* `sub in s`
Contains(s, sub) ==
  \E t \in {s} :
    \E i \in 1..(Len(t) - Len(sub) + 1) : SubSeq(t, i, i + Len(sub) - 1) = sub

\* s.replace(old, new) for a one-character old
RECURSIVE ReplaceFrom(_, _, _, _)
ReplaceFrom(s, i, old, new) ==
  IF i > Len(s) THEN ""
  ELSE CHOOSE r \in {(IF c = old THEN new ELSE c) \o ReplaceFrom(s, j, old, new) :
                       c \in {CharAt(s, i)}, j \in {i + 1}} : TRUE
ReplaceChar(s, old, new) == CHOOSE r \in {ReplaceFrom(t, 1, old, new) : t \in {s}} : TRUE

\* s.rstrip(';')
RECURSIVE RStripTo(_, _)
RStripTo(s, n) ==
  IF n > 0 /\ CharAt(s, n) = ";" THEN RStripTo(s, n - 1) ELSE SubSeq(s, 1, n)
RStripSemi(s) == CHOOSE r \in {RStripTo(t, Len(t)) : t \in {s}} : TRUE

\* str(n) of a natural number, as the f-string formats it
RECURSIVE IntToStr(_)
IntToStr(n) ==
  IF n < 10 THEN CharAt(Digits, n + 1)
  ELSE IntToStr(n \div 10) \o CharAt(Digits, (n % 10) + 1)

\* the number written by the first n characters of s
RECURSIVE StrToIntTo(_, _)
StrToIntTo(s, n) ==
  IF n = 0 THEN 0
  ELSE 10 * StrToIntTo(s, n - 1) + (IndexIn(CharAt(s, n), Digits) - 1)
StrToInt(s) == CHOOSE r \in {StrToIntTo(t, Len(t)) : t \in {s}} : TRUE

IsNumber(s) ==
  \E t \in {s} : Len(t) > 0 /\ \A i \in 1..Len(t) : IndexIn(CharAt(t, i), Digits) # 0

Take(seq, n) == SubSeq(seq, 1, IF n < Len(seq) THEN n ELSE Len(seq))

\* ------------------------------------------------------------ environment
\* Inputs of run_pipeline(table_name, custom_query, limit).  "" stands for
\* None: the code tests both by truthiness (`if custom_query:`, `elif
\* table_name:`), which None and "" fail alike.
TableNameInputs == {"", "ORDERS"}
CustomQueryInputs == {"", "select * from AUDIT limit 5;", "SELECT * FROM CREDIT_LIMIT"}
LimitInputs == {2}

\* What SHOW TABLES may report: nothing, or the tables in either order.
Catalogs == {<<>>, <<"ORDERS", "Audit">>, <<"Audit", "ORDERS">>}

NumCols == 2
Row(t, i) == <<t, i>>
InitWarehouse == [t \in {"ORDERS", "AUDIT", "CREDIT_LIMIT"} |->
                    IF t = "AUDIT" THEN <<>> ELSE <<Row(t, 1), Row(t, 2), Row(t, 3)>>]

\* the tables that gain rows
InsertTables == {"ORDERS"}

SelectPrefix == "SELECT * FROM "
\* the discovery statement of get_snowflake_tables
ShowTables == "SHOW TABLES IN SCHEMA"
LimitKeyword == " LIMIT "

FirstSpaceOf(s) ==
  IF \E i \in 1..Len(s) : CharAt(s, i) = " "
  THEN CHOOSE i \in 1..Len(s) :
         CharAt(s, i) = " " /\ \A j \in 1..(i - 1) : CharAt(s, j) # " "
  ELSE 0
FirstSpace(s) == CHOOSE r \in {FirstSpaceOf(t) : t \in {s}} : TRUE

\* The statement u, in upper case and without its terminator, run on w
ExecuteParsed(w, u, id, tail) ==
  IF \/ Len(u) <= Len(SelectPrefix)
     \/ SubSeq(u, 1, Len(SelectPrefix)) # SelectPrefix
     \/ id \notin DOMAIN w
     \/ (tail # "" /\ \/ SubSeq(tail, 1, Len(LimitKeyword)) # LimitKeyword
                      \/ ~IsNumber(SubSeq(tail, Len(LimitKeyword) + 1, Len(tail))))
  THEN [ok |-> FALSE, rows |-> <<>>]
  ELSE [ok |-> TRUE,
        rows |-> IF tail # ""
                 THEN Take(w[id], StrToInt(SubSeq(tail, Len(LimitKeyword) + 1, Len(tail))))
                 ELSE w[id]]

ExecuteBody(w, u, body, sp) ==
  CHOOSE r \in {ExecuteParsed(w, u, id, tail) :
                  id \in {IF sp = 0 THEN body ELSE SubSeq(body, 1, sp - 1)},
                  tail \in {IF sp = 0 THEN "" ELSE SubSeq(body, sp, Len(body))}} : TRUE

ExecuteUpper(w, u) ==
  CHOOSE r \in {ExecuteBody(w, u, body, FirstSpace(body)) :
                  body \in {SubSeq(u, Len(SelectPrefix) + 1, Len(u))}} : TRUE

\* The warehouse executing a statement: SELECT * FROM <table> [LIMIT <n>] [;]
\* with case-insensitive keywords and unquoted identifiers; anything else, or
\* a table that does not exist, is an execution error.
Execute(w, q) ==
  CHOOSE r \in {ExecuteUpper(w, u) : u \in {RStripSemi(Upper(q))}} : TRUE

\* ----------------------------------------------------------- data values
\* pd.DataFrame(): no rows and no columns
EmptyFrame == [rows |-> <<>>, ncols |-> 0]
Frame(rows) == [rows |-> rows, ncols |-> NumCols]
\* DataFrame.empty: some axis has length 0
IsEmpty(d) == Len(d.rows) = 0 \/ d.ncols = 0

\* Frames and names a caller hands to write_to_duckdb directly
DirectFrames == {EmptyFrame,
                 [rows |-> <<>>, ncols |-> NumCols],
                 Frame(<<Row("X", 1)>>)}
DirectNames == {"orders", "My-Table.v 2"}

NoConn == 0
NotTaken == 0 - 1
NoError == ""

Pending == [kind |-> "pending", df |-> EmptyFrame, err |-> NoError]
Returns(d) == [kind |-> "df", df |-> d, err |-> NoError]
ReturnsNone == [kind |-> "None", df |-> EmptyFrame, err |-> NoError]
Raises(e) == [kind |-> "raise", df |-> EmptyFrame, err |-> e]

\* Errors raised by the libraries
ErrSfConnect == "snowflake.connector.connect failed"
ErrDuckConnect == "duckdb.connect failed"
ErrShowTables == "SHOW TABLES failed"
ErrQuery == "cursor.execute failed"
ErrDrop == "DROP TABLE failed"
ErrRegister == "register failed"
ErrCreate == "CREATE TABLE failed"
ErrUnregister == "unregister failed"
ErrCount == "SELECT COUNT failed"
ErrCloseSnowflake == "snowflake_conn.close failed"
ErrCloseDuckdb == "duckdb_conn.close failed"
\* Errors created by the pipeline
ErrNoSnowflake == "Could not connect to Snowflake"
ErrNoDuckdb == "Could not connect to DuckDB"
ErrNoTables == "No tables found in Snowflake schema"
ErrWriteFalse == "Failed to write data to DuckDB"
ErrDuckNotEstablished == "DuckDB connection not established"

StageOrder == <<"ConnectingRemote", "ConnectingLocal", "Resolving", "Extracting", "Loading">>

\* ------------------------------------------------------------------ state
VARIABLES
  pc,                \* position in run_pipeline / write_to_duckdb / cleanup
  caller,            \* "run": run_pipeline; "direct": write_to_duckdb called directly
  snowflake_conn,    \* self.snowflake_conn: NoConn or a session id
  duckdb_conn,       \* self.duckdb_conn: NoConn or a session id
  insecure_mode,     \* connection_params['insecure_mode'] of the current connect call
  table_name, custom_query, limit,    \* arguments of the call
  query, duckdb_table_name, df,       \* locals of run_pipeline
  clean_table_name,  \* local of write_to_duckdb
  staged,            \* the registered view: <<>> or <<[name, df]>>
  count,             \* the verified COUNT(*), NotTaken before line 139
  writeRet,          \* outcome of write_to_duckdb: "pending", "True", "False", "raise"
  ret,               \* outcome of the call as its caller sees it
  log,               \* records the logger received during the call
  store,             \* the DuckDB file: table name -> rows
  wh,                \* the warehouse: table name -> rows
  sess,              \* every session ever opened: [kind, closes]
  \* history
  calls, inserts,    \* counters for the bounds
  attempts,          \* connection attempts of the current connect_snowflake call
  sfResult,          \* return value of connect_snowflake: "pending", "True", "False"
  stages,            \* stages entered by the current run, in order
  completed,         \* stages that completed successfully
  stageError,        \* the first error raised in the failing stage, NoError if none
  opened,            \* ids of the sessions the current call opened
  storeAtCall,       \* store when the call started
  last,              \* summary of the previous finished run
  onlyRuns,          \* no direct write_to_duckdb call so far
  tables,            \* local of run_pipeline: what get_snowflake_tables returned
  executed,          \* statements the warehouse received in the current call
  closeErrors,       \* close() calls of the current cleanup that raised: [err, at]
  sfConnects,        \* snowflake.connector.connect calls of the current operation
  testConn           \* conn of test_snowflake_connection: "none", "open", "closed"

vars == <<pc, caller, snowflake_conn, duckdb_conn, insecure_mode, table_name,
          custom_query, limit, query, duckdb_table_name, df, clean_table_name,
          staged, count, writeRet, ret, log, store, wh, sess, calls, inserts,
          attempts, sfResult, stages, completed, stageError, opened, storeAtCall,
          last, onlyRuns, tables, executed, closeErrors, sfConnects,
          testConn>>

\* variables scoped to one call
callVars == <<caller, insecure_mode, table_name, custom_query, limit, query,
              duckdb_table_name, df, clean_table_name, count, writeRet, ret, log,
              attempts, sfResult, stages, completed, stageError, opened, storeAtCall,
              tables, executed, closeErrors, sfConnects, testConn>>

NoRun == [kind |-> "none", table_name |-> "", custom_query |-> "", limit |-> DefaultLimit,
          nrows |-> 0, ncols |-> 0]

EmptyStore == [n \in {} |-> <<>>]

\* DataPipeline.__init__ and a store file that does not exist yet
Init ==
  /\ pc = "idle"
  /\ caller = "run"
  /\ snowflake_conn = NoConn
  /\ duckdb_conn = NoConn
  /\ insecure_mode = FALSE
  /\ table_name = "" /\ custom_query = "" /\ limit = DefaultLimit
  /\ query = "" /\ duckdb_table_name = "" /\ df = EmptyFrame
  /\ clean_table_name = ""
  /\ staged = <<>>
  /\ count = NotTaken
  /\ writeRet = "pending"
  /\ ret = Pending
  /\ log = <<>>
  /\ store = EmptyStore
  /\ wh = InitWarehouse
  /\ sess = <<>>
  /\ calls = 0 /\ inserts = 0
  /\ attempts = <<>>
  /\ sfResult = "pending"
  /\ stages = <<>>
  /\ completed = {}
  /\ stageError = NoError
  /\ opened = {}
  /\ storeAtCall = EmptyStore
  /\ last = NoRun
  /\ onlyRuns = TRUE
  /\ tables = <<>>
  /\ executed = <<>>
  /\ closeErrors = <<>>
  /\ sfConnects = <<>>
  /\ testConn = "none"

\* --------------------------------------------------- the pipeline's steps
Info(m) == [level |-> "INFO", msg |-> m]
Warning(m) == [level |-> "WARNING", msg |-> m]
Error(m) == [level |-> "ERROR", msg |-> m]

\* connect(): a new open session
OpenSession(s, kind) == Append(s, [kind |-> kind, closes |-> 0])
\* close() forgotten
CloseSessionSkipped(s, i) == s
\* conn.close()
CloseSession(s, i) == [s EXCEPT ![i].closes = @ + 1]

\* insecure_mode=True passed from the start, as test_connection.py does
InsecureParams == TRUE
\* connection_params as connect_snowflake builds it: no insecure_mode key
FreshParams == FALSE
ConnectMode == IF insecure_mode THEN "relaxed" ELSE "secure"

\* `raise Exception("Pipeline failed")` in place of the bare `raise`
ReRaiseWrapped(e) == "Pipeline failed"
\* the load outcome returned in place of the extracted frame
RunResultLoadOutcome(d) == Returns(EmptyFrame)
\* `raise` in the except clause of run_pipeline re-raises the caught error
ReRaise(e) == e
\* `return df` of run_pipeline
RunResult(d) == Returns(d)

\* tables[-1] in place of tables[0]
LastTable(ts) == ts[Len(ts)]
\* tables[0]
FirstTable(ts) == ts[1]
\* table_name.lower()
LocalName(t) == Lower(t)
\* the period left out of the replacements
CleanNoPeriod(n) == ReplaceChar(ReplaceChar(n, "-", "_"), " ", "_")
\* clean_table_name
Clean(n) == ReplaceChar(ReplaceChar(ReplaceChar(n, "-", "_"), " ", "_"), ".", "_")
SelectAll(t) == "SELECT * FROM " \o t
\* the LIMIT clause of read_snowflake_data
WithLimit(q, l) ==
  IF ~Contains(Upper(q), "LIMIT")
  THEN RStripSemi(q) \o " LIMIT " \o IntToStr(l)
  ELSE q

\* the empty check left out of write_to_duckdb
WriteSkipsNever(d) == FALSE
\* `if df.empty` of write_to_duckdb and `if df is None or df.empty` of run_pipeline
WriteSkips(d) == IsEmpty(d)
RunSkips(d) == IsEmpty(d)

\* the store emptied in place of the one table dropped
DropEveryTable(st, n) == [m \in {} |-> st[n]]
\* DROP TABLE IF EXISTS n
DropTable(st, n) == [m \in (DOMAIN st) \ {n} |-> st[m]]
\* a row-by-row load that stops before the last row
CreateTableAsPartial(st, n, d) ==
  (n :> [d EXCEPT !.rows = SubSeq(d.rows, 1, Len(d.rows) - 1)]) @@ st
\* a load that inserts the rows twice
CreateTableAsTwice(st, n, d) == (n :> [d EXCEPT !.rows = d.rows \o d.rows]) @@ st
\* CREATE TABLE n AS SELECT * FROM <view over d>
CreateTableAs(st, n, d) == (n :> d) @@ st
\* SELECT COUNT(*) FROM n
CountRows(st, n) == Len(st[n].rows)

\* The except clause and the finally clause of run_pipeline: log, re-raise,
\* go to cleanup.  A direct caller of write_to_duckdb keeps its own outcome
\* in writeRet and cleans up as well.
Fail(e) ==
  /\ ret' = IF caller = "run" THEN Raises(ReRaise(e)) ELSE ret
  /\ pc' = "cleanup_snowflake"

\* DataPipeline() builds a new object
Construct ==
  /\ pc = "idle"
  /\ snowflake_conn' = NoConn
  /\ duckdb_conn' = NoConn
  /\ UNCHANGED <<pc, staged, store, wh, sess, calls, inserts, last, onlyRuns>>
  /\ UNCHANGED callVars

\* the warehouse gains a row between two calls
WarehouseInsert(t) ==
  /\ pc = "idle"
  /\ inserts < MaxInserts
  /\ inserts' = inserts + 1
  /\ wh' = [wh EXCEPT ![t] = Append(@, Row(t, Len(@) + 1))]
  /\ last' = NoRun
  /\ UNCHANGED <<pc, snowflake_conn, duckdb_conn, staged, store, sess, calls, onlyRuns>>
  /\ UNCHANGED callVars

\* run_pipeline(t, q, l) is called and enters connect_snowflake
StartRun(t, q, l) ==
  /\ pc = "idle"
  /\ calls < MaxCalls
  /\ calls' = calls + 1
  /\ caller' = "run"
  /\ table_name' = t /\ custom_query' = q /\ limit' = l
  /\ insecure_mode' = FreshParams
  /\ log' = <<Info("=== Starting Data Pipeline ===")>>
  /\ stages' = <<"ConnectingRemote">>
  /\ storeAtCall' = store
  /\ pc' = "connect_secure"
  /\ UNCHANGED <<snowflake_conn, duckdb_conn, query, duckdb_table_name, df,
                 clean_table_name, staged, count, writeRet, ret, store, wh, sess,
                 inserts, attempts, sfResult, completed, stageError, opened,
                 last, onlyRuns, tables, executed, closeErrors, sfConnects, testConn>>

\* connect_duckdb() then write_to_duckdb(d, n) then cleanup(), called directly
StartDirect(d, n) ==
  /\ pc = "idle"
  /\ calls < MaxCalls
  /\ calls' = calls + 1
  /\ caller' = "direct"
  /\ df' = d /\ duckdb_table_name' = n
  /\ storeAtCall' = store
  /\ onlyRuns' = FALSE
  /\ pc' = "connect_duckdb"
  /\ UNCHANGED <<snowflake_conn, duckdb_conn, insecure_mode, table_name, custom_query,
                 limit, query, clean_table_name, staged, count, writeRet, ret, log,
                 store, wh, sess, inserts, attempts, sfResult, stages, completed,
                 stageError, opened, last, tables, executed, closeErrors, sfConnects,
                 testConn>>

connectFrame == <<caller, table_name, custom_query, limit, query, duckdb_table_name,
                  df, clean_table_name, staged, count, writeRet, store, wh, calls,
                  inserts, storeAtCall, last, onlyRuns, tables, executed, closeErrors,
                  testConn>>

\* lines 37-40: the first connect succeeds
SecureOk ==
  /\ pc = "connect_secure"
  /\ sess' = OpenSession(sess, "remote")
  /\ snowflake_conn' = Len(sess')
  /\ opened' = opened \cup {Len(sess')}
  /\ attempts' = Append(attempts, [mode |-> ConnectMode, ok |-> TRUE])
  /\ sfConnects' = Append(sfConnects, [mode |-> ConnectMode, ok |-> TRUE])
  /\ log' = Append(log, Info("Successfully connected to Snowflake with SSL verification"))
  /\ sfResult' = "True"
  /\ completed' = completed \cup {"ConnectingRemote"}
  /\ stages' = Append(stages, "ConnectingLocal")
  /\ pc' = "connect_duckdb"
  /\ UNCHANGED <<duckdb_conn, insecure_mode, ret, stageError>>
  /\ UNCHANGED connectFrame

\* lines 41-46: the first connect raises; warn and set insecure_mode
SecureFail ==
  /\ pc = "connect_secure"
  /\ attempts' = Append(attempts, [mode |-> ConnectMode, ok |-> FALSE])
  /\ sfConnects' = Append(sfConnects, [mode |-> ConnectMode, ok |-> FALSE])
  /\ log' = log \o <<Warning("SSL connection failed"),
                     Info("Attempting connection with relaxed SSL settings...")>>
  /\ insecure_mode' = TRUE
  /\ pc' = "connect_relaxed"
  /\ UNCHANGED <<snowflake_conn, duckdb_conn, ret, sess, sfResult, stages, completed,
                 stageError, opened>>
  /\ UNCHANGED connectFrame

\* lines 47-49: the second connect succeeds
RelaxedOk ==
  /\ pc = "connect_relaxed"
  /\ sess' = OpenSession(sess, "remote")
  /\ snowflake_conn' = Len(sess')
  /\ opened' = opened \cup {Len(sess')}
  /\ attempts' = Append(attempts, [mode |-> ConnectMode, ok |-> TRUE])
  /\ sfConnects' = Append(sfConnects, [mode |-> ConnectMode, ok |-> TRUE])
  /\ log' = Append(log, Info("Successfully connected to Snowflake with insecure mode"))
  /\ sfResult' = "True"
  /\ completed' = completed \cup {"ConnectingRemote"}
  /\ stages' = Append(stages, "ConnectingLocal")
  /\ pc' = "connect_duckdb"
  /\ UNCHANGED <<duckdb_conn, insecure_mode, ret, stageError>>
  /\ UNCHANGED connectFrame

\* lines 47, 51-53, then 154-155 and 196-198: the second connect raises,
\* connect_snowflake returns False and run_pipeline raises its own error
RelaxedFail ==
  /\ pc = "connect_relaxed"
  /\ attempts' = Append(attempts, [mode |-> ConnectMode, ok |-> FALSE])
  /\ sfConnects' = Append(sfConnects, [mode |-> ConnectMode, ok |-> FALSE])
  /\ stageError' = ErrSfConnect
  /\ sfResult' = "False"
  /\ log' = log \o <<Error("Failed to connect to Snowflake"), Error("Pipeline failed")>>
  /\ Fail(ErrNoSnowflake)
  /\ UNCHANGED <<snowflake_conn, duckdb_conn, insecure_mode, sess, stages, completed, opened>>
  /\ UNCHANGED connectFrame

\* the result of connect_duckdb() ignored: the run goes on without a store
DuckdbFailIgnored ==
  /\ pc = "connect_duckdb"
  /\ UNCHANGED sfConnects
  /\ stageError' = ErrDuckConnect
  /\ log' = Append(log, Error("Failed to connect to DuckDB"))
  /\ stages' = IF caller = "run" THEN Append(stages, "Resolving") ELSE stages
  /\ pc' = IF caller = "run" THEN "resolve" ELSE "write"
  /\ UNCHANGED <<snowflake_conn, duckdb_conn, insecure_mode, ret, sess, attempts,
                 sfResult, completed, opened>>
  /\ UNCHANGED connectFrame

\* lines 57-60: duckdb.connect succeeds
DuckdbOk ==
  /\ pc = "connect_duckdb"
  /\ UNCHANGED sfConnects
  /\ sess' = OpenSession(sess, "local")
  /\ duckdb_conn' = Len(sess')
  /\ opened' = opened \cup {Len(sess')}
  /\ log' = Append(log, Info("Successfully connected to DuckDB"))
  /\ completed' = IF caller = "run" THEN completed \cup {"ConnectingLocal"} ELSE completed
  /\ stages' = IF caller = "run" THEN Append(stages, "Resolving") ELSE stages
  /\ pc' = IF caller = "run" THEN "resolve" ELSE "write"
  /\ UNCHANGED <<snowflake_conn, insecure_mode, ret, attempts, sfResult, stageError>>
  /\ UNCHANGED connectFrame

\* lines 61-63, then 157-158 and 196-198: duckdb.connect raises
DuckdbFail ==
  /\ pc = "connect_duckdb"
  /\ UNCHANGED sfConnects
  /\ stageError' = ErrDuckConnect
  /\ log' = IF caller = "run"
            THEN log \o <<Error("Failed to connect to DuckDB"), Error("Pipeline failed")>>
            ELSE Append(log, Error("Failed to connect to DuckDB"))
  /\ Fail(ErrNoDuckdb)
  /\ UNCHANGED <<snowflake_conn, duckdb_conn, insecure_mode, sess, attempts, sfResult,
                 stages, completed, opened>>
  /\ UNCHANGED connectFrame

runFrame == <<caller, snowflake_conn, duckdb_conn, insecure_mode, custom_query, limit,
              clean_table_name, staged, count, writeRet, store, wh, sess, calls,
              inserts, attempts, sfResult, opened, storeAtCall, last, onlyRuns,
              closeErrors, sfConnects, testConn>>

\* the two tests in the other order: the table name wins over the query
ResolveTableFirst ==
  /\ pc = "resolve"
  /\ IF table_name # ""
     THEN /\ query' = SelectAll(table_name)
          /\ duckdb_table_name' = LocalName(table_name)
     ELSE IF custom_query # ""
     THEN /\ query' = custom_query
          /\ duckdb_table_name' = "custom_query_result"
     ELSE UNCHANGED <<query, duckdb_table_name>>
  /\ IF custom_query # "" \/ table_name # ""
     THEN /\ completed' = completed \cup {"Resolving"}
          /\ stages' = Append(stages, "Extracting")
          /\ log' = Append(log, Info("Starting data extraction from Snowflake..."))
          /\ pc' = "read"
     ELSE /\ pc' = "discover"
          /\ UNCHANGED <<completed, stages, log>>
  /\ UNCHANGED <<table_name, df, ret, stageError, tables, executed>>
  /\ UNCHANGED runFrame

\* lines 161-166: a custom query or an explicit table decides what to read;
\* lines 167-168: otherwise the tables are discovered
Resolve ==
  /\ pc = "resolve"
  /\ IF custom_query # ""
     THEN /\ query' = custom_query
          /\ duckdb_table_name' = "custom_query_result"
     ELSE IF table_name # ""
     THEN /\ query' = SelectAll(table_name)
          /\ duckdb_table_name' = LocalName(table_name)
     ELSE UNCHANGED <<query, duckdb_table_name>>
  /\ IF custom_query # "" \/ table_name # ""
     THEN /\ completed' = completed \cup {"Resolving"}
          /\ stages' = Append(stages, "Extracting")
          /\ log' = Append(log, Info("Starting data extraction from Snowflake..."))
          /\ pc' = "read"
     ELSE /\ pc' = "discover"
          /\ UNCHANGED <<completed, stages, log>>
  /\ UNCHANGED <<table_name, df, ret, stageError, tables, executed>>
  /\ UNCHANGED runFrame

\* lines 71-77 and 169-176: SHOW TABLES answers with a non-empty list
DiscoverTables(reported) ==
  /\ pc = "discover"
  /\ reported # <<>>
  /\ executed' = Append(executed, ShowTables)
  /\ tables' = reported
  /\ table_name' = FirstTable(reported)
  /\ query' = SelectAll(table_name')
  /\ duckdb_table_name' = LocalName(table_name')
  /\ completed' = completed \cup {"Resolving"}
  /\ stages' = Append(stages, "Extracting")
  /\ log' = log \o <<Info("Found tables in Snowflake"), Info("Using first available table"),
                     Info("Starting data extraction from Snowflake...")>>
  /\ pc' = "read"
  /\ UNCHANGED <<df, ret, stageError>>
  /\ UNCHANGED runFrame

\* `if not tables: raise` left out: the run goes on without a table
DiscoverNoneGoesOn ==
  /\ pc = "discover"
  /\ <<>> \in Catalogs
  /\ executed' = Append(executed, ShowTables)
  /\ tables' = <<>>
  /\ query' = SelectAll("ORDERS")
  /\ duckdb_table_name' = LocalName("ORDERS")
  /\ completed' = completed \cup {"Resolving"}
  /\ stages' = Append(stages, "Extracting")
  /\ log' = Append(log, Info("Found tables in Snowflake"))
  /\ pc' = "read"
  /\ UNCHANGED <<table_name, df, ret, stageError>>
  /\ UNCHANGED runFrame

\* lines 71-77, 170-171 and 196-198: SHOW TABLES answers with no table
DiscoverNone ==
  /\ pc = "discover"
  /\ <<>> \in Catalogs
  /\ executed' = Append(executed, ShowTables)
  /\ tables' = <<>>
  /\ stageError' = ErrNoTables
  /\ log' = log \o <<Info("Found tables in Snowflake"), Error("Pipeline failed")>>
  /\ Fail(ErrNoTables)
  /\ UNCHANGED <<table_name, query, duckdb_table_name, df, stages, completed>>
  /\ UNCHANGED runFrame

\* lines 72, 79-81, 170-171 and 196-198: SHOW TABLES raises, [] is returned
DiscoverFail ==
  /\ pc = "discover"
  /\ executed' = Append(executed, ShowTables)
  /\ tables' = <<>>
  /\ stageError' = ErrShowTables
  /\ log' = log \o <<Error("Failed to get table list"), Error("Pipeline failed")>>
  /\ Fail(ErrNoTables)
  /\ UNCHANGED <<table_name, query, duckdb_table_name, df, stages, completed>>
  /\ UNCHANGED runFrame

\* lines 89-111 and 186-187: the query returns rows
ReadRows ==
  /\ pc = "read"
  /\ \E sent \in {WithLimit(query, limit)} : \E r \in {Execute(wh, sent)} :
        /\ r.ok
        /\ r.rows # <<>>
        /\ df' = Frame(r.rows)
        /\ executed' = Append(executed, sent)
  /\ completed' = completed \cup {"Extracting"}
  /\ stages' = Append(stages, "Loading")
  /\ log' = log \o <<Info("Successfully read rows from Snowflake"),
                     Info("Starting data load to DuckDB...")>>
  /\ pc' = "write"
  /\ UNCHANGED <<table_name, query, duckdb_table_name, ret, stageError, tables>>
  /\ UNCHANGED runFrame

\* lines 89-104 and 182-184: the query returns no row; run_pipeline returns None
ReadEmpty ==
  /\ pc = "read"
  /\ \E sent \in {WithLimit(query, limit)} : \E r \in {Execute(wh, sent)} :
        /\ r.ok
        /\ r.rows = <<>>
        /\ executed' = Append(executed, sent)
  /\ df' = EmptyFrame
  /\ completed' = completed \cup {"Extracting"}
  /\ IF RunSkips(df')
     THEN /\ log' = log \o <<Warning("Query returned no results"),
                             Warning("No data retrieved from Snowflake")>>
          /\ ret' = ReturnsNone
          /\ pc' = "cleanup_snowflake"
          /\ stages' = stages
     ELSE /\ log' = log \o <<Warning("Query returned no results"),
                             Info("Starting data load to DuckDB...")>>
          /\ ret' = ret
          /\ pc' = "write"
          /\ stages' = Append(stages, "Loading")
  /\ UNCHANGED <<table_name, query, duckdb_table_name, stageError, tables>>
  /\ UNCHANGED runFrame

\* the error of the query logged and an empty frame returned in its place,
\* as get_snowflake_tables does with []
ReadFailAsEmpty ==
  /\ pc = "read"
  /\ executed' = Append(executed, WithLimit(query, limit))
  /\ stageError' = ErrQuery
  /\ df' = EmptyFrame
  /\ completed' = completed \cup {"Extracting"}
  /\ log' = log \o <<Error("Failed to read from Snowflake"),
                     Warning("No data retrieved from Snowflake")>>
  /\ ret' = ReturnsNone
  /\ pc' = "cleanup_snowflake"
  /\ UNCHANGED <<table_name, query, duckdb_table_name, stages, tables>>
  /\ UNCHANGED runFrame

\* lines 97, 113-115 and 196-198: the query raises (the statement is wrong,
\* the table is missing, or the warehouse fails)
ReadFail ==
  /\ pc = "read"
  /\ executed' = Append(executed, WithLimit(query, limit))
  /\ stageError' = ErrQuery
  /\ log' = log \o <<Error("Failed to read from Snowflake"), Error("Pipeline failed")>>
  /\ Fail(ErrQuery)
  /\ UNCHANGED <<table_name, query, duckdb_table_name, df, stages, completed, tables>>
  /\ UNCHANGED runFrame

writeFrame == <<caller, snowflake_conn, duckdb_conn, insecure_mode, table_name,
                custom_query, limit, query, duckdb_table_name, df, wh, sess, calls,
                inserts, attempts, sfResult, stages, opened, storeAtCall, last, onlyRuns,
                tables, executed, closeErrors, sfConnects, testConn>>

\* lines 144-146 and 196-198: a statement of write_to_duckdb raises
WriteRaise(e) ==
  /\ stageError' = e
  /\ writeRet' = "raise"
  /\ log' = IF caller = "run"
            THEN log \o <<Error("Failed to write to DuckDB"), Error("Pipeline failed")>>
            ELSE Append(log, Error("Failed to write to DuckDB"))
  /\ Fail(e)

\* lines 120-125, and 193-194 in run_pipeline: no connection raises, an
\* empty frame is refused with False
WriteRefuse ==
  /\ pc = "write"
  /\ duckdb_conn = NoConn \/ WriteSkips(df)
  /\ IF duckdb_conn = NoConn
     THEN WriteRaise(ErrDuckNotEstablished)
     ELSE /\ writeRet' = "False"
          /\ stageError' = stageError
          /\ log' = IF caller = "run"
                    THEN log \o <<Warning("DataFrame is empty, skipping write"),
                                  Error("Pipeline failed")>>
                    ELSE Append(log, Warning("DataFrame is empty, skipping write"))
          /\ Fail(ErrWriteFalse)
  /\ UNCHANGED <<clean_table_name, staged, count, store, completed>>
  /\ UNCHANGED writeFrame

\* lines 128-131: the name is cleaned and the table dropped
WriteDropOk ==
  /\ pc = "write"
  /\ duckdb_conn # NoConn /\ ~WriteSkips(df)
  /\ clean_table_name' = Clean(duckdb_table_name)
  /\ store' = DropTable(store, clean_table_name')
  /\ pc' = "write_register"
  /\ UNCHANGED <<staged, count, writeRet, ret, log, completed, stageError>>
  /\ UNCHANGED writeFrame

WriteDropFail ==
  /\ pc = "write"
  /\ duckdb_conn # NoConn /\ ~WriteSkips(df)
  /\ clean_table_name' = Clean(duckdb_table_name)
  /\ WriteRaise(ErrDrop)
  /\ UNCHANGED <<staged, count, store, completed>>
  /\ UNCHANGED writeFrame

\* line 134: the frame is registered as a view
WriteRegisterOk ==
  /\ pc = "write_register"
  /\ staged' = <<[name |-> clean_table_name \o "_temp", df |-> df]>>
  /\ pc' = "write_create"
  /\ UNCHANGED <<clean_table_name, count, writeRet, ret, log, store, completed, stageError>>
  /\ UNCHANGED writeFrame

WriteRegisterFail ==
  /\ pc = "write_register"
  /\ WriteRaise(ErrRegister)
  /\ UNCHANGED <<clean_table_name, staged, count, store, completed>>
  /\ UNCHANGED writeFrame

\* line 135: the table is created from the view; DuckDB refuses to create a
\* table that exists
WriteCreateOk ==
  /\ pc = "write_create"
  /\ clean_table_name \notin DOMAIN store
  /\ store' = CreateTableAs(store, clean_table_name, staged[1].df)
  /\ pc' = "write_unregister"
  /\ UNCHANGED <<clean_table_name, staged, count, writeRet, ret, log, completed,
                 stageError>>
  /\ UNCHANGED writeFrame

WriteCreateFail ==
  /\ pc = "write_create"
  /\ WriteRaise(ErrCreate)
  /\ UNCHANGED <<clean_table_name, staged, count, store, completed>>
  /\ UNCHANGED writeFrame

\* line 136: the view is unregistered
WriteUnregisterOk ==
  /\ pc = "write_unregister"
  /\ staged' = <<>>
  /\ pc' = "write_count"
  /\ UNCHANGED <<clean_table_name, count, writeRet, ret, log, store, completed,
                 stageError>>
  /\ UNCHANGED writeFrame

WriteUnregisterFail ==
  /\ pc = "write_unregister"
  /\ WriteRaise(ErrUnregister)
  /\ UNCHANGED <<clean_table_name, staged, count, store, completed>>
  /\ UNCHANGED writeFrame

\* lines 139-142, and 190-192 in run_pipeline: the rows are counted, True is
\* returned and run_pipeline returns the frame
WriteCountOk ==
  /\ pc = "write_count"
  /\ count' = CountRows(store, clean_table_name)
  /\ writeRet' = "True"
  /\ completed' = IF caller = "run" THEN completed \cup {"Loading"} ELSE completed
  /\ log' = IF caller = "run"
            THEN log \o <<Info("Successfully wrote rows to DuckDB table"),
                          Info("=== Pipeline completed successfully! ===")>>
            ELSE Append(log, Info("Successfully wrote rows to DuckDB table"))
  /\ ret' = IF caller = "run" THEN RunResult(df) ELSE ret
  /\ pc' = "cleanup_snowflake"
  /\ UNCHANGED <<clean_table_name, staged, store, stageError>>
  /\ UNCHANGED writeFrame

WriteCountFail ==
  /\ pc = "write_count"
  /\ WriteRaise(ErrCount)
  /\ UNCHANGED <<clean_table_name, staged, count, store, completed>>
  /\ UNCHANGED writeFrame

\* the error of close() let through to the caller of run_pipeline
AfterCloseRaised(r, e) == Raises(e)
\* `except: pass` of cleanup: nothing is logged and nothing is raised
ExceptPass(l, e) == l
AfterClose(r, e) == r

cleanupFrame == <<caller, snowflake_conn, duckdb_conn, insecure_mode, table_name,
                  custom_query, limit, query, duckdb_table_name, df, clean_table_name,
                  count, writeRet, store, wh, calls, inserts, attempts, sfResult,
                  stages, completed, stageError, opened, storeAtCall, last,
                  onlyRuns, tables, executed, sfConnects, testConn>>

\* line 205: self.snowflake_conn is None
CleanupNoSnowflake ==
  /\ pc = "cleanup_snowflake"
  /\ snowflake_conn = NoConn
  /\ pc' = "cleanup_duckdb"
  /\ UNCHANGED <<sess, log, staged, ret, closeErrors>>
  /\ UNCHANGED cleanupFrame

\* lines 205-208: close() returns
CloseSnowflake ==
  /\ pc = "cleanup_snowflake"
  /\ snowflake_conn # NoConn
  /\ sess' = CloseSession(sess, snowflake_conn)
  /\ log' = Append(log, Info("Snowflake connection closed"))
  /\ pc' = "cleanup_duckdb"
  /\ UNCHANGED <<staged, ret, closeErrors>>
  /\ UNCHANGED cleanupFrame

\* one try block around both closes: a close() of the warehouse connection
\* that raises ends cleanup
CloseSnowflakeRaisesEndsCleanup ==
  /\ pc = "cleanup_snowflake"
  /\ snowflake_conn # NoConn
  /\ sess' = CloseSession(sess, snowflake_conn)
  /\ closeErrors' = Append(closeErrors, [err |-> ErrCloseSnowflake, at |-> Len(log)])
  /\ log' = ExceptPass(log, ErrCloseSnowflake)
  /\ ret' = AfterClose(ret, ErrCloseSnowflake)
  /\ pc' = "returned"
  /\ UNCHANGED staged
  /\ UNCHANGED cleanupFrame

\* lines 205-210: close() raises and the bare except passes
CloseSnowflakeRaises ==
  /\ pc = "cleanup_snowflake"
  /\ snowflake_conn # NoConn
  /\ sess' = CloseSession(sess, snowflake_conn)
  /\ closeErrors' = Append(closeErrors, [err |-> ErrCloseSnowflake, at |-> Len(log)])
  /\ log' = ExceptPass(log, ErrCloseSnowflake)
  /\ ret' = AfterClose(ret, ErrCloseSnowflake)
  /\ pc' = "cleanup_duckdb"
  /\ UNCHANGED staged
  /\ UNCHANGED cleanupFrame

\* line 211: self.duckdb_conn is None
CleanupNoDuckdb ==
  /\ pc = "cleanup_duckdb"
  /\ duckdb_conn = NoConn
  /\ pc' = "returned"
  /\ UNCHANGED <<sess, log, staged, ret, closeErrors>>
  /\ UNCHANGED cleanupFrame

\* lines 211-214: close() returns; the registered view goes with the connection
CloseDuckdb ==
  /\ pc = "cleanup_duckdb"
  /\ duckdb_conn # NoConn
  /\ sess' = CloseSession(sess, duckdb_conn)
  /\ staged' = <<>>
  /\ log' = Append(log, Info("DuckDB connection closed"))
  /\ pc' = "returned"
  /\ UNCHANGED <<ret, closeErrors>>
  /\ UNCHANGED cleanupFrame

\* lines 211-216: close() raises and the bare except passes
CloseDuckdbRaises ==
  /\ pc = "cleanup_duckdb"
  /\ duckdb_conn # NoConn
  /\ sess' = CloseSession(sess, duckdb_conn)
  /\ staged' = <<>>
  /\ closeErrors' = Append(closeErrors, [err |-> ErrCloseDuckdb, at |-> Len(log)])
  /\ log' = ExceptPass(log, ErrCloseDuckdb)
  /\ ret' = AfterClose(ret, ErrCloseDuckdb)
  /\ pc' = "returned"
  /\ UNCHANGED cleanupFrame

\* ------------------------------------------------- test_connection.py
\* The script is a process of its own: it shares nothing with a DataPipeline
\* object, and its connection is gone when it ends.
CurrentVersion == "SELECT CURRENT_VERSION()"
\* `return True` and `return False` of test_snowflake_connection
TestReturns(b) == [kind |-> b, df |-> EmptyFrame, err |-> NoError]

testFrame == <<snowflake_conn, duckdb_conn, table_name, custom_query, limit, query,
               duckdb_table_name, df, clean_table_name, staged, count, writeRet, log,
               store, wh, sess, calls, inserts, attempts, sfResult, stages, completed,
               stageError, opened, storeAtCall, last, onlyRuns, tables, closeErrors>>

\* test_snowflake_connection() is called: the parameters of its connect
\* carry insecure_mode=True (line 21)
StartTest ==
  /\ pc = "idle"
  /\ caller' = "test"
  /\ insecure_mode' = TRUE
  /\ pc' = "test_connect"
  /\ UNCHANGED <<ret, sfConnects, executed, testConn>>
  /\ UNCHANGED testFrame

\* lines 13-22: the connect succeeds
TestConnectOk ==
  /\ pc = "test_connect"
  /\ sfConnects' = Append(sfConnects, [mode |-> ConnectMode, ok |-> TRUE])
  /\ testConn' = "open"
  /\ pc' = "test_query"
  /\ UNCHANGED <<caller, insecure_mode, ret, executed>>
  /\ UNCHANGED testFrame

\* lines 13-22 and 44-46: the connect raises, False is returned
TestConnectFail ==
  /\ pc = "test_connect"
  /\ sfConnects' = Append(sfConnects, [mode |-> ConnectMode, ok |-> FALSE])
  /\ ret' = TestReturns("False")
  /\ pc' = "returned"
  /\ UNCHANGED <<caller, insecure_mode, executed, testConn>>
  /\ UNCHANGED testFrame

\* lines 24-42: both statements run, the connection is closed, True is returned
TestQueriesOk ==
  /\ pc = "test_query"
  /\ executed' = executed \o <<CurrentVersion, ShowTables>>
  /\ testConn' = "closed"
  /\ ret' = TestReturns("True")
  /\ pc' = "returned"
  /\ UNCHANGED <<caller, insecure_mode, sfConnects>>
  /\ UNCHANGED testFrame

\* lines 24-32 and 44-46: a statement raises, False is returned and the
\* connection is not closed
TestQueriesFail ==
  /\ pc = "test_query"
  /\ executed' = Append(executed, CurrentVersion)
  /\ ret' = TestReturns("False")
  /\ pc' = "returned"
  /\ UNCHANGED <<caller, insecure_mode, sfConnects, testConn>>
  /\ UNCHANGED testFrame

\* what is remembered of a run that returned a frame, until the source changes
Summary ==
  [kind |-> ret.kind, table_name |-> table_name, custom_query |-> custom_query,
   limit |-> limit, nrows |-> Len(ret.df.rows), ncols |-> ret.df.ncols]

\* run_data_pipeline, lines 90-113: the caller takes the frame, None or the
\* exception; the locals of the call are gone
CallerReceives ==
  /\ pc = "returned"
  /\ pc' = "idle"
  /\ last' = IF caller = "run" /\ ret.kind = "df" THEN Summary ELSE NoRun
  /\ caller' = "run"
  /\ insecure_mode' = FALSE
  /\ table_name' = "" /\ custom_query' = "" /\ limit' = DefaultLimit
  /\ query' = "" /\ duckdb_table_name' = "" /\ df' = EmptyFrame
  /\ clean_table_name' = ""
  /\ count' = NotTaken
  /\ writeRet' = "pending"
  /\ ret' = Pending
  /\ log' = <<>>
  /\ attempts' = <<>>
  /\ sfResult' = "pending"
  /\ stages' = <<>>
  /\ completed' = {}
  /\ stageError' = NoError
  /\ opened' = {}
  /\ storeAtCall' = EmptyStore
  /\ tables' = <<>>
  /\ executed' = <<>>
  /\ closeErrors' = <<>>
  /\ sfConnects' = <<>>
  /\ testConn' = "none"
  /\ UNCHANGED <<snowflake_conn, duckdb_conn, staged, store, wh, sess, calls, inserts,
                 onlyRuns>>

\* the steps of a call in progress
Step ==
  \/ SecureOk \/ SecureFail \/ RelaxedOk \/ RelaxedFail
  \/ DuckdbOk \/ DuckdbFail
  \/ Resolve
  \/ \E reported \in Catalogs : DiscoverTables(reported)
  \/ DiscoverNone \/ DiscoverFail
  \/ ReadRows \/ ReadEmpty \/ ReadFail
  \/ WriteRefuse
  \/ WriteDropOk \/ WriteDropFail
  \/ WriteRegisterOk \/ WriteRegisterFail
  \/ WriteCreateOk \/ WriteCreateFail
  \/ WriteUnregisterOk \/ WriteUnregisterFail
  \/ WriteCountOk \/ WriteCountFail
  \/ CleanupNoSnowflake \/ CloseSnowflake \/ CloseSnowflakeRaises
  \/ CleanupNoDuckdb \/ CloseDuckdb \/ CloseDuckdbRaises
  \/ TestConnectOk \/ TestConnectFail \/ TestQueriesOk \/ TestQueriesFail

Next ==
  \/ Construct
  \/ \E t \in InsertTables : WarehouseInsert(t)
  \/ \E t \in TableNameInputs, q \in CustomQueryInputs, l \in LimitInputs : StartRun(t, q, l)
  \/ \E d \in DirectFrames, n \in DirectNames : StartDirect(d, n)
  \/ StartTest
  \/ Step
  \/ CallerReceives

Spec == Init /\ [][Next]_vars

\* Execution is synchronous: a call that was started runs on until it returns.
\* Every step of a call moves pc.
FairSpec == Spec /\ WF_pc(Step)

\* ------------------------------------------------------------------ claims
Finished == pc = "returned"
RunFinished == pc = "returned" /\ caller = "run"
InCall == pc # "idle"
Target == Clean(duckdb_table_name)
SessionIds == 1..Len(sess)
LocalErrors == {ErrDrop, ErrRegister, ErrCreate, ErrUnregister, ErrCount}

\* C1: every call of run_pipeline that has started comes to its end, whatever
\* the stages do, and at its end close() has been called on every session
\* the run opened.
C1_CleanupOnEveryExit ==
  (InCall /\ caller = "run") ~>
     (RunFinished /\ \A i \in opened : sess[i].closes >= 1)

C1_Witness ==
  /\ RunFinished
  /\ ret = Raises(ErrCreate)
  /\ Cardinality(opened) = 2
  /\ \A i \in opened : sess[i].closes >= 1

C3_NeverPartial ==
  [][\A n \in DOMAIN store' :
        ( \/ (n \in DOMAIN store /\ store'[n] = store[n])
          \/ (n = clean_table_name /\ store'[n] = df /\ Len(df.rows) >= 1) )]_vars

C3_Witness ==
  /\ Finished
  /\ stageError \in LocalErrors
  /\ Target \in DOMAIN storeAtCall
  /\ Target \notin DOMAIN store

\* C4: when write_to_duckdb has returned True, the count was taken after the
\* write and it is the number of rows of the frame, which has at least
\* one row; so is a new COUNT(*) of the table.
C4_VerifiedCount ==
  writeRet = "True" =>
     ( /\ Len(df.rows) >= 1
       /\ count # NotTaken
       /\ count = Len(df.rows)
       /\ Target \in DOMAIN store
       /\ CountRows(store, Target) = Len(df.rows) )

C4_Witness ==
  /\ Finished
  /\ writeRet = "True"
  /\ Target \in DOMAIN storeAtCall
  /\ Len(storeAtCall[Target].rows) # Len(df.rows)

\* C5: a frame without rows handed to write_to_duckdb is refused with False
\* and the store stays as it was when the call started; a run whose
\* extraction has no rows leaves the store as it was as well.
C5_EmptyLeavesStore ==
  /\ ( (caller = "direct" /\ Len(df.rows) = 0) =>
         ( /\ store = storeAtCall
           /\ writeRet \in {"pending", "False"}
           /\ ((Finished /\ stageError = NoError) => writeRet = "False") ) )
  /\ ( (caller = "run" /\ "Extracting" \in completed /\ Len(df.rows) = 0) =>
         ( /\ store = storeAtCall
           /\ writeRet = "pending"
           /\ ret = ReturnsNone ) )

C5_Witness ==
  /\ Finished
  /\ caller = "direct"
  /\ Len(df.rows) = 0
  /\ writeRet = "False"
  /\ Clean(duckdb_table_name) \in DOMAIN store
  /\ Len(store[Clean(duckdb_table_name)].rows) >= 1

\* C6: a run that returns a frame right after a run with the same arguments
\* that returned a frame, the source unchanged in between, returns as many
\* rows and columns, and the target table then holds exactly its rows.
SameAsLast ==
  /\ last.kind = "df"
  /\ last.table_name = table_name
  /\ last.custom_query = custom_query
  /\ last.limit = limit

C6_SecondRunReplaces ==
  (RunFinished /\ ret.kind = "df" /\ SameAsLast) =>
     ( /\ Len(ret.df.rows) = last.nrows
       /\ ret.df.ncols = last.ncols
       /\ Target \in DOMAIN store
       /\ store[Target] = ret.df
       /\ CountRows(store, Target) = last.nrows )

C6_Witness ==
  /\ RunFinished
  /\ ret.kind = "df"
  /\ SameAsLast
  /\ table_name = "ORDERS"
  /\ Target \in DOMAIN storeAtCall
  /\ CountRows(store, Target) = Len(storeAtCall[Target].rows)

\* C7: in one call of connect_snowflake the first attempt is secure; a
\* relaxed attempt is the second and last one and follows a failed secure
\* attempt; True is returned exactly when the last attempt succeeded and
\* False exactly when both failed; after a fallback the warning of the
\* first attempt is in the log and the connect did not fail the run.
SecureFailed == [mode |-> "secure", ok |-> FALSE]
FellBack == attempts = <<SecureFailed, [mode |-> "relaxed", ok |-> TRUE]>>

C7_SecureFirstRelaxedOnce ==
  /\ Len(attempts) <= Len(<<"secure", "relaxed">>)
  /\ (Len(attempts) >= 1 => attempts[1].mode = "secure")
  /\ (Len(attempts) >= 2 => (attempts[1] = SecureFailed /\ attempts[2].mode = "relaxed"))
  /\ ((sfResult = "True") <=> (attempts # <<>> /\ attempts[Len(attempts)].ok))
  /\ ((sfResult = "False") <=> (Len(attempts) = 2 /\ ~attempts[1].ok /\ ~attempts[2].ok))
  /\ (sfResult = "False" => ret = Raises(ErrNoSnowflake))
  /\ (FellBack =>
        ( /\ \E i \in 1..Len(log) : log[i] = Warning("SSL connection failed")
          /\ "ConnectingRemote" \in completed
          /\ (ret.kind = "raise" => ret.err # ErrNoSnowflake) ))

\* a second run on the same object falls back again and returns its frame
C7_Witness ==
  /\ RunFinished
  /\ FellBack
  /\ ret.kind = "df"
  /\ snowflake_conn > 1

\* C8 as stated: over any sequence of runs no session is closed twice, and
\* between runs every session opened so far has been closed once.
C8_ClosedExactlyOnce ==
  onlyRuns =>
     ( /\ \A i \in SessionIds : sess[i].closes <= 1
       /\ (pc \in {"idle", "returned"} => \A i \in SessionIds : sess[i].closes = 1) )

\* the stages are entered in the order of StageOrder, each after the one
\* before it completed, and nothing follows a stage that failed
StagesInOrder ==
  /\ Len(stages) <= Len(StageOrder)
  /\ \A i \in 1..Len(stages) : stages[i] = StageOrder[i]
  /\ \A i \in 2..Len(stages) : StageOrder[i - 1] \in completed
  /\ \A st \in completed : \E i \in 1..Len(stages) : stages[i] = st
  /\ (ret.kind = "raise" => stages[Len(stages)] \notin completed)
  /\ ((\E i \in opened : sess[i].kind = "local") => "ConnectingRemote" \in completed)
  /\ (store # storeAtCall => "Extracting" \in completed)
  /\ (writeRet # "pending" => "Extracting" \in completed)

\* C9 as stated: the stages run in order, and a run ends either Failed or
\* Done, Done only after the Loading stage completed.
C9_Original ==
  (caller = "run" /\ InCall) =>
     ( /\ StagesInOrder
       /\ (Finished => ( \/ ret.kind = "raise"
                         \/ (ret.kind = "df" /\ "Loading" \in completed) )) )

\* C9 as amended: the stages run in order, and a run ends Failed, or Done
\* after the Loading stage completed, or with None and no error after an
\* extraction that completed without rows, the Loading stage never entered.
C9_StagesAndThreeEnds ==
  (caller = "run" /\ InCall) =>
     ( /\ StagesInOrder
       /\ (Finished =>
            ( \/ ret.kind = "raise"
              \/ (ret.kind = "df" /\ "Loading" \in completed)
              \/ ( /\ ret = ReturnsNone
                   /\ stages[Len(stages)] = "Extracting"
                   /\ "Extracting" \in completed
                   /\ Len(df.rows) = 0 ) )) )

C9_Witness ==
  /\ RunFinished
  /\ ret = ReturnsNone
  /\ stages = SubSeq(StageOrder, 1, 4)

\* C10 as stated: a run fails with an error or returns the extracted frame.
C10_Original ==
  RunFinished =>
     ( \/ ret.kind = "raise"
       \/ (ret.kind = "df" /\ ret.df = df /\ Len(df.rows) >= 1) )

\* C10 as amended: a run fails with an error, or returns the extracted
\* frame, the one that was loaded, or returns None when the extraction had
\* no rows.
C10_FrameNoneOrError ==
  RunFinished =>
     ( \/ (ret.kind = "raise" /\ ret.err # NoError)
       \/ ( /\ ret.kind = "df"
            /\ ret.df = df
            /\ Len(df.rows) >= 1
            /\ writeRet = "True"
            /\ store[Target] = ret.df )
       \/ ( /\ ret = ReturnsNone
            /\ "Extracting" \in completed
            /\ Len(df.rows) = 0
            /\ writeRet = "pending" ) )

C10_Witness ==
  /\ RunFinished
  /\ ret.kind = "df"
  /\ Len(ret.df.rows) = 2
  /\ custom_query = ""

\* the discovery call of the run answered, and with no table
DiscoveredNothing ==
  /\ caller = "run"
  /\ executed # <<>>
  /\ executed[1] = ShowTables
  /\ tables = <<>>
  /\ stageError # ErrShowTables

\* C11: a run without table and without query whose discovery returns an
\* empty list fails with "No tables found in Snowflake schema"; the
\* discovery statement is the only one the warehouse receives, the
\* Extracting stage is never entered and the store stays as it was.
C11_EmptyDiscoveryFails ==
  DiscoveredNothing =>
     ( /\ table_name = "" /\ custom_query = ""
       /\ ret = Raises(ErrNoTables)
       /\ executed = <<ShowTables>>
       /\ stages[Len(stages)] = "Resolving"
       /\ "Resolving" \notin completed
       /\ df = EmptyFrame
       /\ store = storeAtCall )

\* the failing run finds a table of an earlier run in the store and leaves it
C11_Witness ==
  /\ RunFinished
  /\ DiscoveredNothing
  /\ ret = Raises(ErrNoTables)
  /\ "orders" \in DOMAIN store

\* the kind of failure an error of run_pipeline tells its caller
ErrorKind(e) ==
  IF e \in {ErrNoSnowflake, ErrNoDuckdb} THEN "ConnectionError"
  ELSE IF e = ErrNoTables THEN "NoTablesFound"
  ELSE IF e = ErrQuery THEN "ExtractionError"
  ELSE IF e \in (LocalErrors \cup {ErrWriteFalse, ErrDuckNotEstablished}) THEN "LoadError"
  ELSE "unknown"

\* the kind of failure that happened in the stage that did not complete
FailureKind ==
  IF stages[Len(stages)] \in {"ConnectingRemote", "ConnectingLocal"} THEN "ConnectionError"
  ELSE IF stages[Len(stages)] = "Resolving"
       THEN (IF stageError = ErrShowTables THEN "DiscoveryError" ELSE "NoTablesFound")
  ELSE IF stages[Len(stages)] = "Extracting" THEN "ExtractionError"
  ELSE "LoadError"

\* C12 as stated: the error a run fails with tells the kind of the failure;
\* in particular a discovery call that raised is not told as NoTablesFound.
C12_ErrorTellsKind ==
  (RunFinished /\ ret.kind = "raise") => ErrorKind(ret.err) = FailureKind

\* the query text read_snowflake_data handed to cursor.execute
ReadExecuted ==
  /\ caller = "run"
  /\ executed # <<>>
  /\ executed[Len(executed)] # ShowTables
SentQuery == executed[Len(executed)]
\* the statement has a LIMIT clause: the keyword stands as a word of its own
HasLimitClause(q) == Contains(Upper(q), LimitKeyword)

\* C13 as stated: the limit is appended exactly when the query has no LIMIT
\* clause, and a query that has one is sent as it is; LIMIT inside an
\* identifier is no clause.
C13_LimitAppendedIffNoClause ==
  ReadExecuted =>
     SentQuery = IF HasLimitClause(query)
                 THEN query
                 ELSE RStripSemi(query) \o " LIMIT " \o IntToStr(limit)

\* C14: with a custom query, whatever the table name, the query is the
\* custom query, nothing is discovered, the one statement sent is the custom
\* query, as it is or with the limit appended, and the only table the run
\* writes is custom_query_result.
C14_CustomQueryWins ==
  (caller = "run" /\ custom_query # "" /\ "Resolving" \in completed) =>
     ( /\ query = custom_query
       /\ duckdb_table_name = "custom_query_result"
       /\ tables = <<>>
       /\ Len(executed) <= 1
       /\ \A i \in 1..Len(executed) :
             \/ executed[i] = custom_query
             \/ executed[i] = RStripSemi(custom_query) \o " LIMIT " \o IntToStr(limit)
       /\ \A n \in DOMAIN storeAtCall :
             n # "custom_query_result" => (n \in DOMAIN store /\ store[n] = storeAtCall[n])
       /\ \A n \in DOMAIN store :
             n # "custom_query_result" => n \in DOMAIN storeAtCall
       /\ (writeRet = "True" => store["custom_query_result"] = df) )

C14_Witness ==
  /\ RunFinished
  /\ custom_query # ""
  /\ table_name = "ORDERS"
  /\ ret.kind = "df"
  /\ "orders" \notin DOMAIN store
  /\ "custom_query_result" \in DOMAIN store

\* write_to_duckdb has computed the name of its table
NameCleaned == pc \in {"write_register", "write_create", "write_unregister", "write_count"}
                 \/ writeRet = "True"
Replaced == {"-", " ", "."}

C16_CloseFailureLogged ==
  Finished =>
     \A i \in 1..Len(closeErrors) :
        \E j \in (closeErrors[i].at + 1)..Len(log) : log[j].level \in {"WARNING", "ERROR"}

\* the error run_pipeline raises for the first error of the failing stage
RaisedFor(e) ==
  IF e = ErrSfConnect THEN ErrNoSnowflake
  ELSE IF e = ErrDuckConnect THEN ErrNoDuckdb
  ELSE IF e = ErrShowTables THEN ErrNoTables
  ELSE e

\* C17: when close() raised during the cleanup of a run, a run that failed
\* before still raises the error of that failure, and a run that did not
\* fail still returns its frame or None.
C17_CloseFailureNeverMasks ==
  (caller = "run" /\ closeErrors # <<>>) =>
     ( /\ ret.err \notin {ErrCloseSnowflake, ErrCloseDuckdb}
       /\ (stageError # NoError => ret = Raises(RaisedFor(stageError)))
       /\ (stageError = NoError =>
             ( \/ (ret = Returns(df) /\ writeRet = "True")
               \/ (ret = ReturnsNone /\ writeRet = "pending") )) )

C17_Witness ==
  /\ RunFinished
  /\ Len(closeErrors) = 2
  /\ ret = Raises(ErrCreate)

\* C18: a query that raises makes read_snowflake_data raise: the Extracting
\* stage does not complete, the run fails with that error and nothing is
\* loaded.  A query that runs and has no rows completes the stage with a
\* frame of no rows and no columns and without an error.  No state shows
\* both outcomes.
C18_ErrorIsNotEmptyResult ==
  caller = "run" =>
     ( /\ (stageError = ErrQuery =>
             ( /\ "Extracting" \notin completed
               /\ stages[Len(stages)] = "Extracting"
               /\ ret = Raises(ErrQuery)
               /\ writeRet = "pending"
               /\ store = storeAtCall ))
       /\ (("Extracting" \in completed /\ Len(df.rows) = 0) =>
             ( /\ df = EmptyFrame
               /\ df.ncols = 0
               /\ stageError = NoError
               /\ ret = ReturnsNone
               /\ \A i \in 1..Len(log) : log[i].level # "ERROR" )) )

C18_Witness ==
  /\ RunFinished
  /\ stageError = ErrQuery
  /\ ReadExecuted
  /\ "orders" \in DOMAIN store

\* the other outcome: a query without rows
C18_WitnessEmpty ==
  /\ RunFinished
  /\ ReadExecuted
  /\ "Extracting" \in completed
  /\ df = EmptyFrame

\* C19: a run that discovered tables reads the first one reported; a run
\* reading a table, discovered or given, has the query SELECT * FROM <table>
\* and the lower-case table name as its target, so that from the resolution
\* on the two runs are in the same state; the frame a discovering run
\* returns is the answer to that query, loaded under that name.
C19_FirstTableAsExplicit ==
  /\ ( (caller = "run" /\ tables # <<>>) =>
         ( /\ custom_query = ""
           /\ executed[1] = ShowTables
           /\ table_name = tables[1]
           /\ query = "SELECT * FROM " \o tables[1]
           /\ duckdb_table_name = Lower(tables[1])
           /\ (Len(executed) > 1 =>
                 executed = <<ShowTables, WithLimit("SELECT * FROM " \o tables[1], limit)>>)
           /\ ((Finished /\ ret.kind = "df") =>
                 ( /\ ret.df = Frame(Execute(wh, executed[2]).rows)
                   /\ store[Lower(tables[1])] = ret.df )) ) )
  /\ ( (caller = "run" /\ custom_query = "" /\ "Resolving" \in completed) =>
         ( /\ query = SelectAll(table_name)
           /\ duckdb_table_name = LocalName(table_name) ) )

C19_Witness ==
  /\ RunFinished
  /\ tables = <<"ORDERS", "Audit">>
  /\ ret.kind = "df"
  /\ "orders" \in DOMAIN store

\* C20 as stated: in every operation of the repository a connect to the
\* warehouse in relaxed mode comes right after a secure connect that failed.
C20_RelaxedOnlyAfterSecureFailed ==
  \A i \in 1..Len(sfConnects) :
     sfConnects[i].mode = "relaxed" => (i > 1 /\ sfConnects[i - 1] = SecureFailed)

\* close() of the warehouse connection raised during the cleanup in progress
RemoteCloseRaised ==
  \E i \in 1..Len(closeErrors) : closeErrors[i].err = ErrCloseSnowflake

\* C21: when close() of the warehouse connection has raised, cleanup goes on
\* to the DuckDB connection; when cleanup has ended, close() has been called
\* on the DuckDB connection the object holds and on every local session the
\* run opened.
C21_LocalClosedAfterRemoteCloseRaised ==
  (caller = "run" /\ RemoteCloseRaised) =>
     ( /\ pc \in {"cleanup_duckdb", "returned"}
       /\ (pc = "returned" =>
             ( /\ (duckdb_conn # NoConn => sess[duckdb_conn].closes >= 1)
               /\ \A i \in opened :
                     sess[i].kind = "local" => sess[i].closes >= 1 )) )

C21_Witness ==
  /\ RunFinished
  /\ RemoteCloseRaised
  /\ Len(closeErrors) = 1
  /\ duckdb_conn \in opened
  /\ sess[duckdb_conn].kind = "local"
  /\ sess[duckdb_conn].closes = 1

\* the tables of the store other than the target of the call in progress
OtherTables(st) == (DOMAIN st) \ {Target}

\* C22: at every point of a run, whatever its outcome, the tables of the
\* store other than the cleaned target of the run are the tables that were
\* there when the run started, each with the contents it had then.
C22_OnlyTargetChanges ==
  (caller = "run" /\ InCall) =>
     \/ store = storeAtCall
     \/ LET others == OtherTables(storeAtCall)
        IN /\ OtherTables(store) = others
           /\ \A n \in others : store[n] = storeAtCall[n]

C22_Witness ==
  /\ RunFinished
  /\ ret.kind = "df"
  /\ OtherTables(storeAtCall) # {}
  /\ Target \notin DOMAIN storeAtCall
  /\ Target \in DOMAIN store
  /\ store[Target] = ret.df

====
